---- MODULE Spec2Model ----
(***************************************************************************)
(* LoadMoveGH escrow settlement engine: wallets, ledger, escrow holds,     *)
(* disputes and MoMo payment callbacks (api/app/api/v1/endpoints).         *)
(* Money is counted in pesewas (the GHS minor unit, Numeric(14, 2)).       *)
(***************************************************************************)
EXTENDS Integers, Sequences, FiniteSets, TLC

\* ------------------------------------------------------------------------
\* Bounds of the model
\* ------------------------------------------------------------------------
NumTrips == 1
MaxPayments == 2
MaxDisputes == 1

\* Requests in flight at the same time (one database session each).
NumSessions == 2

Trips == 1..NumTrips
Sessions == 1..NumSessions
\* external_transaction_id values: those of the payments made one after the
\* other, and one more for each session in flight.
PayKeys == 1..(MaxPayments + NumSessions)

\* Wallet owners, and the callers of the endpoints.
Users == {"shipper", "courier"}
Callers == {"shipper", "courier", "admin"}

\* The accepted bid price of each trip (bid.price), the amounts a client
\* deposits or withdraws, and the amounts an administrator offers in a split.
BidPrice(t) == IF t = 1 THEN 80000 ELSE 100000
DepositAmounts == {100000}
WithdrawAmounts == {50000}
RefundAmounts == {0, 30000, 60000}
PayoutAmounts == {0, 40000}

\* ------------------------------------------------------------------------
\* Enumerations (app/models/wallet.py, app/models/freight.py)
\* ------------------------------------------------------------------------
TripStatus == {"pickup_pending", "picked_up", "in_transit", "at_waypoint",
               "delivered", "confirmed", "disputed", "cancelled"}

TRIP_STATUS_TRANSITIONS ==
    [s \in TripStatus |->
        CASE s = "pickup_pending" -> {"picked_up", "cancelled"}
          [] s = "picked_up"      -> {"in_transit", "cancelled"}
          [] s = "in_transit"     -> {"at_waypoint", "delivered"}
          [] s = "at_waypoint"    -> {"in_transit", "delivered"}
          [] s = "delivered"      -> {"confirmed", "disputed"}
          [] s = "confirmed"      -> {}
          [] s = "disputed"       -> {"confirmed", "cancelled"}
          [] s = "cancelled"      -> {}]

EscrowStatus == {"held", "released", "refunded", "disputed", "partially_released"}
ActiveDisputeStatus == {"open", "under_review", "escalated"}
ResolvedDisputeStatus == {"resolved_shipper", "resolved_courier", "resolved_split"}
CallbackStatus == {"success", "failed", "timeout", "cancelled", "unknown"}

\* ------------------------------------------------------------------------
\* Arithmetic
\* ------------------------------------------------------------------------
Max(a, b) == IF a >= b THEN a ELSE b
Min(a, b) == IF a <= b THEN a ELSE b

\* round(x, 2) of a non-negative amount given as num/den pesewas.
RoundDiv(num, den) ==
    LET q == num \div den
        r == num % den
    IN  IF 2 * r > den THEN q + 1
        ELSE IF 2 * r < den THEN q
        ELSE IF q % 2 = 0 THEN q ELSE q + 1

\* PLATFORM_COMMISSION_RATE = 0.05, as the fraction RateNum / RateDen.
PLATFORM_COMMISSION_RATE == 5
RateDen == 100

\* The value the name PLATFORM_COMMISSION_RATE has in the running deployment,
\* in percent: the module constant, which only a new deployment changes.
VARIABLE rate

\* commission = round(amount * PLATFORM_COMMISSION_RATE, 2)
Commission(amount) == RoundDiv(amount * rate, RateDen)

\* courier_payout = round(amount - commission, 2)
CourierPayout_gross(amount, commission) == amount
CourierPayout(amount, commission) == amount - commission

\* fee = round(max(0.50, min(amount * 0.01, 10.00)), 2)
WithdrawFeePct == 1
WithdrawFeeMin == 50
WithdrawFeeMax == 1000
WithdrawFee_unclamped(amount) == RoundDiv(amount * WithdrawFeePct, 100)
WithdrawFee(amount) ==
    Max(WithdrawFeeMin, Min(RoundDiv(amount * WithdrawFeePct, 100), WithdrawFeeMax))

\* ------------------------------------------------------------------------
\* Rows
\* ------------------------------------------------------------------------
\* Wallet(user_id, currency): a row exists once the wallet has been created.
NoWallet ==
    [exists |-> FALSE, balance |-> 0, escrow_balance |-> 0, total_deposited |-> 0,
     total_withdrawn |-> 0, total_earned |-> 0, status |-> "active"]

NewWallet == [NoWallet EXCEPT !.exists = TRUE]

\* EscrowHold, keyed by its trip (trip_id is unique); status "none" = no row.
NoHold ==
    [status |-> "none", amount |-> 0, courier_wallet |-> FALSE, rate |-> 0,
     commission |-> -1, payout |-> -1]

\* MoMoPayment, keyed by its external_transaction_id; status "none" = no row.
NoMomo ==
    [status |-> "none", direction |-> "none", wallet |-> "none", amount |-> 0, fee |-> 0]

\* Transaction: one ledger entry.
Txn(wallet, type, amount, fee, balance_after, status, ref_type, ref) ==
    [wallet |-> wallet, type |-> type, amount |-> amount, fee |-> fee,
     balance_after |-> balance_after, status |-> status,
     ref_type |-> ref_type, ref |-> ref]

\* The database before any request.
EmptyDb ==
    [wallets  |-> [u \in Users |-> NoWallet],
     trips    |-> [t \in Trips |-> "pickup_pending"],
     holds    |-> [t \in Trips |-> NoHold],
     disputes |-> << >>,
     txns     |-> << >>,
     momos    |-> [k \in PayKeys |-> NoMomo],
     payouts  |-> << >>]

\* A handler's outcome: the session's state at the end of the request and
\* the HTTP status code.  An HTTPException leaves the session untouched.
Ok(d, code) == [db |-> d, code |-> code]
Fail(d, code) == [db |-> d, code |-> code]

IsAdmin(user) == user = "admin"
IsSystemAdmin(user) == user = "admin"

\* ------------------------------------------------------------------------
\* Wallet helpers
\* ------------------------------------------------------------------------
\* get_wallet_for_user: the wallet row of a user, or None.
get_wallet_for_user(d, user) == d.wallets[user]

\* get_or_create_wallet: the wallet row, inserted with zero balances if absent.
get_or_create_wallet_new(d, user) == [d EXCEPT !.wallets[user] = NewWallet]
get_or_create_wallet(d, user) ==
    IF d.wallets[user].exists THEN d
    ELSE [d EXCEPT !.wallets[user] = NewWallet]

\* ------------------------------------------------------------------------
\* POST /escrow/hold-for-trip
\* ------------------------------------------------------------------------
\* shipper_wallet.status != WalletStatus.ACTIVE is refused
ShipperWalletUsable_any(status) == TRUE
ShipperWalletUsable(status) == status = "active"

\* shipper_wallet.escrow_balance = float(shipper_wallet.escrow_balance) + amount
EscrowAfterHold_same(escrow_balance, amount) == escrow_balance
EscrowAfterHold(escrow_balance, amount) == escrow_balance + amount

create_escrow_hold(d, t, user) ==
    LET amount == BidPrice(t)
        sw == get_wallet_for_user(d, "shipper")
        cw == get_wallet_for_user(d, "courier")
        bal == sw.balance - amount
    IN  IF d.trips[t] # "pickup_pending" THEN Fail(d, 400)
        ELSE IF d.holds[t].status # "none" THEN Fail(d, 409)
        ELSE IF ~sw.exists THEN Fail(d, 400)
        ELSE IF ~ShipperWalletUsable(sw.status) THEN Fail(d, 400)
        ELSE IF sw.balance < amount THEN Fail(d, 400)
        ELSE Ok([d EXCEPT
                   !.wallets["shipper"].balance = bal,
                   !.wallets["shipper"].escrow_balance =
                        EscrowAfterHold(sw.escrow_balance, amount),
                   !.holds[t] = [status |-> "held", amount |-> amount,
                                 courier_wallet |-> cw.exists,
                                 rate |-> rate,
                                 commission |-> -1, payout |-> -1],
                   !.txns = Append(@, Txn("shipper", "escrow_hold", amount, 0, bal,
                                          "completed", "escrow", t))],
                201)

\* ------------------------------------------------------------------------
\* POST /escrow/{id}/release
\* ------------------------------------------------------------------------
\* escrow.status != EscrowStatus.HELD is refused
Releasable_locked(status) == status \in {"held", "disputed"}
Releasable(status) == status = "held"

release_escrow(d, t, user) ==
    LET escrow == d.holds[t]
        amount == escrow.amount
        commission == Commission(amount)
        courier_payout == CourierPayout(amount, commission)
        sw == d.wallets["shipper"]
        \* the courier wallet the hold references, or a new row for the courier
        cw == IF escrow.courier_wallet THEN d.wallets["courier"] ELSE NewWallet
        cbal == cw.balance + courier_payout
    IN  IF escrow.status = "none" THEN Fail(d, 404)
        ELSE IF ~Releasable(escrow.status) THEN Fail(d, 400)
        ELSE IF d.trips[t] # "confirmed" THEN Fail(d, 400)
        ELSE IF ~(user = "shipper" \/ IsAdmin(user)) THEN Fail(d, 403)
        \* inserting a second wallet for the courier breaks uq_wallet_user_currency
        ELSE IF ~escrow.courier_wallet /\ d.wallets["courier"].exists THEN Fail(d, 500)
        ELSE Ok([d EXCEPT
                   !.holds[t].commission = commission,
                   !.holds[t].payout = courier_payout,
                   !.holds[t].status = "released",
                   !.holds[t].courier_wallet = TRUE,
                   !.wallets["shipper"].escrow_balance = sw.escrow_balance - amount,
                   !.wallets["courier"] =
                        [cw EXCEPT !.balance = cbal,
                                   !.total_earned = cw.total_earned + courier_payout],
                   !.txns = @ \o
                        << Txn("shipper", "escrow_release", amount, 0, sw.balance,
                               "completed", "escrow", t),
                           Txn("shipper", "commission", commission, 0, sw.balance,
                               "completed", "escrow", t),
                           Txn("courier", "escrow_release", courier_payout, commission,
                               cbal, "completed", "escrow", t) >>,
                   !.payouts = Append(@, [trip |-> t, amount |-> courier_payout,
                                          status |-> "completed"])],
                200)

\* ------------------------------------------------------------------------
\* POST /escrow/{id}/refund
\* ------------------------------------------------------------------------
\* escrow.status not in (EscrowStatus.HELD, EscrowStatus.DISPUTED) is refused
Refundable_held(status) == status = "held"
Refundable(status) == status \in {"held", "disputed"}

refund_escrow(d, t, user) ==
    LET escrow == d.holds[t]
        amount == escrow.amount
        sw == d.wallets["shipper"]
        bal == sw.balance + amount
    IN  IF ~IsSystemAdmin(user) THEN Fail(d, 403)
        ELSE IF escrow.status = "none" THEN Fail(d, 404)
        ELSE IF ~Refundable(escrow.status) THEN Fail(d, 400)
        ELSE Ok([d EXCEPT
                   !.wallets["shipper"].balance = bal,
                   !.wallets["shipper"].escrow_balance = sw.escrow_balance - amount,
                   !.holds[t].status = "refunded",
                   !.txns = Append(@, Txn("shipper", "escrow_refund", amount, 0, bal,
                                          "completed", "escrow", t))],
                200)

\* ------------------------------------------------------------------------
\* POST /disputes
\* ------------------------------------------------------------------------
\* The ids of the disputes of a trip that are open, under review or escalated.
ActiveDisputes(d, t) ==
    {i \in 1..Len(d.disputes) :
        d.disputes[i].trip = t /\ d.disputes[i].status \in ActiveDisputeStatus}

\* if escrow.status == EscrowStatus.HELD: escrow.status = EscrowStatus.DISPUTED
HoldStatusOnDispute_kept(status) == status
HoldStatusOnDispute(status) == IF status = "held" THEN "disputed" ELSE status

open_dispute(d, t, user) ==
    LET escrow == d.holds[t]
        against == IF user = "shipper" THEN "courier" ELSE "shipper"
    IN  IF d.trips[t] \notin {"delivered", "confirmed"} THEN Fail(d, 400)
        ELSE IF user \notin {"shipper", "courier"} THEN Fail(d, 403)
        ELSE IF escrow.status = "none" THEN Fail(d, 400)
        \* scalar_one_or_none: one row is a conflict, several rows raise
        ELSE IF Cardinality(ActiveDisputes(d, t)) = 1 THEN Fail(d, 409)
        ELSE IF Cardinality(ActiveDisputes(d, t)) > 1 THEN Fail(d, 500)
        ELSE Ok([d EXCEPT
                   !.trips[t] = "disputed",
                   !.holds[t].status = HoldStatusOnDispute(escrow.status),
                   !.disputes = Append(@, [trip |-> t, status |-> "open",
                                           raised_by |-> user, against |-> against,
                                           refund |-> -1, payout |-> -1,
                                           resolved_by |-> "none"])],
                201)

\* ------------------------------------------------------------------------
\* POST /disputes/{id}/resolve
\* ------------------------------------------------------------------------
\* The dispute is stamped with its outcome, the resolving administrator and
\* the shipper_refund_amount and courier_payout_amount applied.
FinalizeDispute_unstamped(dd, id, resolution, user, refund, payout) ==
    [dd EXCEPT !.disputes[id].status = resolution]
FinalizeDispute(dd, id, resolution, user, refund, payout) ==
    [dd EXCEPT !.disputes[id].status = resolution,
               !.disputes[id].resolved_by = user,
               !.disputes[id].refund = refund,
               !.disputes[id].payout = payout]

\* round(shipper_refund + courier_payout, 2) > amount
SplitExceedsHold_never(amount, shipper_refund, courier_payout) == FALSE
SplitExceedsHold(amount, shipper_refund, courier_payout) ==
    shipper_refund + courier_payout > amount

\* platform_take of a split: what the two parties do not get
PlatformTake_gross(amount, shipper_refund, courier_payout) == amount - shipper_refund
PlatformTake(amount, shipper_refund, courier_payout) ==
    amount - shipper_refund - courier_payout

resolve_dispute(d, id, user, resolution, shipper_refund, split_payout) ==
    IF ~IsSystemAdmin(user) THEN Fail(d, 403)
    ELSE IF id \notin 1..Len(d.disputes) THEN Fail(d, 404)
    ELSE IF d.disputes[id].status \notin ActiveDisputeStatus THEN Fail(d, 400)
    ELSE
    LET dispute == d.disputes[id]
        t == dispute.trip
        escrow == d.holds[t]
        amount == escrow.amount
        sw == d.wallets["shipper"]
        has_cw == escrow.courier_wallet
        cw == IF has_cw THEN d.wallets["courier"] ELSE NewWallet
        \* inserting a second wallet for the courier breaks uq_wallet_user_currency
        clash == ~has_cw /\ d.wallets["courier"].exists
        finalize(dd, refund, payout) ==
            FinalizeDispute(dd, id, resolution, user, refund, payout)
    IN  IF resolution = "resolved_shipper" THEN
            LET bal == sw.balance + amount
            IN  Ok(finalize([d EXCEPT
                     !.wallets["shipper"].balance = bal,
                     !.wallets["shipper"].escrow_balance = sw.escrow_balance - amount,
                     !.holds[t].status = "refunded",
                     !.txns = Append(@, Txn("shipper", "escrow_refund", amount, 0, bal,
                                            "completed", "dispute", id))],
                   amount, 0), 200)
        ELSE IF resolution = "resolved_courier" THEN
            LET commission == Commission(amount)
                courier_payout == CourierPayout(amount, commission)
                cbal == cw.balance + courier_payout
            IN  IF clash THEN Fail(d, 500)
                ELSE Ok(finalize([d EXCEPT
                     !.wallets["shipper"].escrow_balance = sw.escrow_balance - amount,
                     !.wallets["courier"] =
                          [cw EXCEPT !.balance = cbal,
                                     !.total_earned = cw.total_earned + courier_payout],
                     !.holds[t].commission = commission,
                     !.holds[t].payout = courier_payout,
                     !.holds[t].status = "released",
                     !.txns = @ \o
                          << Txn("shipper", "commission", commission, 0, sw.balance,
                                 "completed", "dispute", id),
                             Txn("courier", "escrow_release", courier_payout, commission,
                                 cbal, "completed", "dispute", id) >>],
                   0, courier_payout), 200)
        ELSE \* resolved_split
            LET courier_payout == split_payout
                bal == sw.balance + shipper_refund
                cbal == cw.balance + courier_payout
                platform_take == PlatformTake(amount, shipper_refund, courier_payout)
                refund_txn == IF shipper_refund > 0
                              THEN << Txn("shipper", "escrow_refund", shipper_refund, 0,
                                          bal, "completed", "dispute", id) >>
                              ELSE << >>
                payout_txn == IF courier_payout > 0
                              THEN << Txn("courier", "escrow_release", courier_payout, 0,
                                          cbal, "completed", "dispute", id) >>
                              ELSE << >>
                take_txn == IF platform_take > 0
                            THEN << Txn("shipper", "commission", platform_take, 0,
                                        bal, "completed", "dispute", id) >>
                            ELSE << >>
            IN  IF SplitExceedsHold(amount, shipper_refund, courier_payout)
                THEN Fail(d, 400)
                ELSE IF courier_payout > 0 /\ clash THEN Fail(d, 500)
                ELSE Ok(finalize([d EXCEPT
                     !.wallets["shipper"].escrow_balance = sw.escrow_balance - amount,
                     !.wallets["shipper"].balance = bal,
                     !.wallets["courier"] =
                          IF courier_payout > 0
                          THEN [cw EXCEPT !.balance = cbal,
                                          !.total_earned = cw.total_earned + courier_payout]
                          ELSE @,
                     !.txns = @ \o refund_txn \o payout_txn \o take_txn,
                     !.holds[t].status = "partially_released",
                     !.holds[t].payout = courier_payout,
                     !.holds[t].commission = platform_take],
                   shipper_refund, courier_payout), 200)

\* ------------------------------------------------------------------------
\* POST /disputes/{id}/escalate
\* ------------------------------------------------------------------------
\* dispute.status not in (DisputeStatus.OPEN, DisputeStatus.UNDER_REVIEW) is refused
Escalatable_active(status) == status \in ActiveDisputeStatus
Escalatable(status) == status \in {"open", "under_review"}

escalate_dispute(d, id, user) ==
    IF id \notin 1..Len(d.disputes) THEN Fail(d, 404)
    ELSE IF ~(IsAdmin(user) \/ user \in {d.disputes[id].raised_by, d.disputes[id].against})
         THEN Fail(d, 403)
    ELSE IF ~Escalatable(d.disputes[id].status) THEN Fail(d, 400)
    ELSE Ok([d EXCEPT !.disputes[id].status = "escalated"], 200)

\* ------------------------------------------------------------------------
\* POST /wallets/me/deposit
\* ------------------------------------------------------------------------
\* key is the external_transaction_id generated for the payment.
\* status=TransactionStatus.PENDING: the entry of a deposit that was initiated
DepositEntryStatus_completed == "completed"
DepositEntryStatus == "pending"

deposit_momo(d, user, amount, key) ==
    LET d1 == get_or_create_wallet(d, user)
        wallet == d1.wallets[user]
    IN  IF wallet.status # "active" THEN Fail(d, 400)
        ELSE Ok([d1 EXCEPT
                   !.txns = Append(@, Txn(user, "deposit", amount, 0, wallet.balance,
                                          DepositEntryStatus, "momo_payment", key)),
                   !.momos[key] = [status |-> "pending", direction |-> "collection",
                                   wallet |-> user, amount |-> amount, fee |-> 0]],
                201)

\* ------------------------------------------------------------------------
\* POST /wallets/me/withdraw
\* ------------------------------------------------------------------------
withdraw_momo(d, user, amount, key) ==
    LET d1 == get_or_create_wallet(d, user)
        wallet == d1.wallets[user]
        fee == WithdrawFee(amount)
        total_debit == amount + fee
        bal == wallet.balance - total_debit
    IN  IF wallet.status # "active" THEN Fail(d, 400)
        ELSE IF wallet.balance < total_debit THEN Fail(d, 400)
        ELSE Ok([d1 EXCEPT
                   !.wallets[user].balance = bal,
                   !.wallets[user].total_withdrawn = wallet.total_withdrawn + amount,
                   !.txns = Append(@, Txn(user, "withdrawal", amount, fee, bal,
                                          "processing", "momo_payment", key)),
                   !.momos[key] = [status |-> "pending", direction |-> "disbursement",
                                   wallet |-> user, amount |-> amount, fee |-> fee]],
                201)

\* ------------------------------------------------------------------------
\* POST /wallets/momo-callback
\* ------------------------------------------------------------------------
\* The ledger entries tied to a payment (momo.transaction_id).
TxnsOf_any(d, key) ==
    {i \in 1..Len(d.txns) : d.txns[i].ref_type = "momo_payment"}
TxnsOf(d, key) ==
    {i \in 1..Len(d.txns) : d.txns[i].ref_type = "momo_payment" /\ d.txns[i].ref = key}

\* txn.status (and, when given, txn.balance_after) of the payment's entry.
MarkTxn_skip(d, key, status, balance_after) == d
MarkTxn(d, key, status, balance_after) ==
    [d EXCEPT !.txns = [i \in 1..Len(d.txns) |->
        IF i \in TxnsOf(d, key)
        THEN [d.txns[i] EXCEPT !.status = status,
                               !.balance_after = IF balance_after = -1 THEN @
                                                 ELSE balance_after]
        ELSE d.txns[i]]]

\* momo.status in (MoMoStatus.SUCCESS, MoMoStatus.FAILED): already processed
ProcessedStatus_success == {"success"}
ProcessedStatus == {"success", "failed"}

\* txn.status = TransactionStatus.FAILED: the entry of a payment not made
FailedEntryStatus_pending == "pending"
FailedEntryStatus == "failed"

\* reversal_amount of a failed disbursement: the optimistic debit
ReversalAmount_nofee(momo) == momo.amount
ReversalAmount(momo) == momo.amount + momo.fee

momo_callback(d, key, status) ==
    IF key \notin PayKeys \/ d.momos[key].status = "none" THEN Fail(d, 404)
    ELSE
    LET momo == d.momos[key]
        wallet == d.wallets[momo.wallet]
    IN  IF momo.status \in ProcessedStatus THEN Ok(d, 200)
        ELSE IF status = "success" THEN
            IF momo.direction = "collection" THEN
                LET bal == wallet.balance + momo.amount
                IN  Ok(MarkTxn([d EXCEPT
                          !.momos[key].status = "success",
                          !.wallets[momo.wallet].balance = bal,
                          !.wallets[momo.wallet].total_deposited =
                               wallet.total_deposited + momo.amount],
                        key, "completed", bal), 200)
            ELSE Ok(MarkTxn([d EXCEPT !.momos[key].status = "success"],
                            key, "completed", -1), 200)
        ELSE IF status \in {"failed", "timeout", "cancelled"} THEN
            IF momo.direction = "disbursement" THEN
                LET reversal_amount == ReversalAmount(momo)
                IN  Ok(MarkTxn([d EXCEPT
                          !.momos[key].status = "failed",
                          !.wallets[momo.wallet].balance = wallet.balance + reversal_amount,
                          !.wallets[momo.wallet].total_withdrawn =
                               wallet.total_withdrawn - momo.amount],
                        key, FailedEntryStatus, -1), 200)
            ELSE Ok(MarkTxn([d EXCEPT !.momos[key].status = "failed"],
                            key, FailedEntryStatus, -1), 200)
        ELSE Ok(d, 200)

\* ------------------------------------------------------------------------
\* PATCH /trips/{id}/status
\* ------------------------------------------------------------------------
update_trip_status(d, t, user, new) ==
    LET current == d.trips[t]
        courier_ok == {"picked_up", "in_transit", "at_waypoint", "delivered", "cancelled"}
        shipper_ok == {"confirmed", "disputed", "cancelled"}
    IN  IF new \notin TRIP_STATUS_TRANSITIONS[current] /\ ~IsAdmin(user) THEN Fail(d, 400)
        ELSE IF ~IsAdmin(user) /\ user = "courier" /\ new \notin courier_ok THEN Fail(d, 403)
        ELSE IF ~IsAdmin(user) /\ user = "shipper" /\ new \notin shipper_ok THEN Fail(d, 403)
        ELSE Ok([d EXCEPT !.trips[t] = new], 200)

\* ------------------------------------------------------------------------
\* POST /fraud/alerts/{id}/resolve with action freeze_wallet
\* ------------------------------------------------------------------------
resolve_alert(d, target) ==
    IF d.wallets[target].exists
    THEN Ok([d EXCEPT !.wallets[target].status = "frozen"], 200)
    ELSE Ok(d, 200)

\* ------------------------------------------------------------------------
\* State: the committed database and the response to the latest request
\* ------------------------------------------------------------------------
VARIABLES db, last, req

vars == << db, last, req, rate >>

\* by is the caller, or the status a callback reports.
Response(op, arg, by, code) == [op |-> op, arg |-> arg, by |-> by, code |-> code]
NoResponse == Response("none", 0, "none", 0)

\* A session slot: idle, or a request that has read its rows (snap) and has
\* not committed yet, or a request that is done and has been answered (code).
Request(phase, op, arg, by, amount, key, snap, code) ==
    [phase |-> phase, op |-> op, arg |-> arg, by |-> by, amount |-> amount,
     key |-> key, snap |-> snap, code |-> code]
IdleRequest == Request("idle", "none", 0, "none", 0, 0, EmptyDb, 0)

Init ==
    /\ rate = PLATFORM_COMMISSION_RATE
    /\ db = EmptyDb
    /\ last = NoResponse
    /\ req = [s \in Sessions |-> IdleRequest]

\* One request served to completion: commit on success, rollback on error.
\* rec tells whether the response is kept in last.
Serve(rec, op, arg, by, out) ==
    /\ db' = out.db
    /\ last' = IF rec THEN Response(op, arg, by, out.code) ELSE NoResponse
    /\ UNCHANGED << req, rate >>

\* The next unused external_transaction_id.
FreeKeys == {k \in 1..MaxPayments : db.momos[k].status = "none"}
NextKey == CHOOSE k \in FreeKeys : \A j \in FreeKeys : k <= j

HoldCall(rec) ==
    \E t \in Trips : Serve(rec, "hold", t, "shipper", create_escrow_hold(db, t, "shipper"))

ReleaseCall(rec) ==
    \E t \in Trips, u \in Callers : Serve(rec, "release", t, u, release_escrow(db, t, u))

RefundCall(rec) ==
    \E t \in Trips, u \in Callers : Serve(rec, "refund", t, u, refund_escrow(db, t, u))

OpenDisputeCall(rec) ==
    /\ Len(db.disputes) < MaxDisputes
    /\ \E t \in Trips, u \in Callers :
        Serve(rec, "open_dispute", t, u, open_dispute(db, t, u))

ResolveCall(rec) ==
    \E id \in 1..MaxDisputes, u \in Callers,
       res \in {"resolved_shipper", "resolved_courier"} :
        Serve(rec, res, id, u, resolve_dispute(db, id, u, res, 0, 0))

SplitCall(rec) ==
    \E id \in 1..MaxDisputes, r \in RefundAmounts, p \in PayoutAmounts :
        Serve(rec, "resolved_split", id, "admin",
              resolve_dispute(db, id, "admin", "resolved_split", r, p))

EscalateCall(rec) ==
    \E id \in 1..MaxDisputes, u \in Callers :
        Serve(rec, "escalate", id, u, escalate_dispute(db, id, u))

DepositCall(rec, users) ==
    /\ FreeKeys # {}
    /\ \E u \in users, a \in DepositAmounts :
        Serve(rec, "deposit", NextKey, u, deposit_momo(db, u, a, NextKey))

WithdrawCall(rec, users) ==
    /\ FreeKeys # {}
    /\ \E u \in users, a \in WithdrawAmounts :
        Serve(rec, "withdraw", NextKey, u, withdraw_momo(db, u, a, NextKey))

CallbackCall(rec) ==
    \E k \in PayKeys, st \in CallbackStatus :
        Serve(rec, "callback", k, st, momo_callback(db, k, st))

TripStatusCall(rec, callers) ==
    \E t \in Trips, u \in callers, new \in TripStatus :
        Serve(rec, "trip_status", t, u, update_trip_status(db, t, u, new))

\* Every endpoint, any caller; responses are not kept.
HoldForTrip ==
    /\ HoldCall(FALSE)
Release ==
    /\ ReleaseCall(FALSE)
Refund ==
    /\ RefundCall(FALSE)
OpenDispute ==
    /\ OpenDisputeCall(FALSE)
ResolveDispute ==
    /\ ResolveCall(FALSE)
ResolveSplit ==
    /\ SplitCall(FALSE)
Escalate ==
    /\ EscalateCall(FALSE)
Deposit ==
    /\ DepositCall(FALSE, Users)
Withdraw ==
    /\ WithdrawCall(FALSE, Users)
PaymentCallback ==
    /\ CallbackCall(FALSE)
UpdateTripStatus ==
    /\ TripStatusCall(FALSE, Callers)

Next ==
    \/ HoldForTrip
    \/ Release
    \/ Refund
    \/ OpenDispute
    \/ ResolveDispute
    \/ ResolveSplit
    \/ Escalate
    \/ Deposit
    \/ Withdraw
    \/ PaymentCallback
    \/ UpdateTripStatus

Spec == Init /\ [][Next]_vars

\* The escrow endpoints with their responses kept; the shipper funds the
\* wallet by deposits and the parties move the trip along its transitions.
HoldForTripR ==
    /\ HoldCall(TRUE)
ReleaseR ==
    /\ ReleaseCall(TRUE)
RefundR ==
    /\ RefundCall(TRUE)
OpenDisputeR ==
    /\ OpenDisputeCall(TRUE)
ResolveDisputeR ==
    /\ ResolveCall(TRUE)
ResolveSplitR ==
    /\ SplitCall(TRUE)
EscalateR ==
    /\ EscalateCall(TRUE)
DepositR ==
    /\ DepositCall(FALSE, {"shipper"})
PaymentCallbackR ==
    /\ CallbackCall(FALSE)
UpdateTripStatusR ==
    /\ TripStatusCall(FALSE, Users)

NextR ==
    \/ HoldForTripR
    \/ ReleaseR
    \/ RefundR
    \/ OpenDisputeR
    \/ ResolveDisputeR
    \/ ResolveSplitR
    \/ EscalateR
    \/ DepositR
    \/ PaymentCallbackR
    \/ UpdateTripStatusR

SpecR == Init /\ [][NextR]_vars

\* The payment endpoints with their responses kept.
DepositP ==
    /\ DepositCall(TRUE, Users)
WithdrawP ==
    /\ WithdrawCall(TRUE, Users)
PaymentCallbackP ==
    /\ CallbackCall(TRUE)

NextP ==
    \/ DepositP
    \/ WithdrawP
    \/ PaymentCallbackP

SpecP == Init /\ [][NextP]_vars

\* ------------------------------------------------------------------------
\* Requests in flight at the same time
\* ------------------------------------------------------------------------
\* Every request runs in its own AsyncSession (Depends(get_db)).  The first
\* SELECT of a handler loads the rows it works on (the relationships are
\* lazy="selectin", and no query uses with_for_update); the handler computes
\* on those objects and flushes; the session commits when the handler returns
\* and rolls back when it raises.

\* The handler a request runs, on the rows d its session holds.
Run(r, d) ==
    CASE r.op = "withdraw" -> withdraw_momo(d, r.by, r.amount, r.key)
      [] r.op = "callback" -> momo_callback(d, r.arg, r.by)
      [] r.op = "release"  -> release_escrow(d, r.arg, r.by)
      [] r.op = "refund"   -> refund_escrow(d, r.arg, r.by)
      [] r.op = "hold"     -> create_escrow_hold(d, r.arg, r.by)
      [] r.op = "open_dispute" -> open_dispute(d, r.arg, r.by)
      [] OTHER             -> resolve_dispute(d, r.arg, r.by, r.op, 0, 0)

\* The UPDATE of a row sets the attributes the handler changed to the values
\* it computed; the other columns keep what is committed.
DiffRow(cur, snap, res) ==
    [f \in DOMAIN res |-> IF res[f] # snap[f] THEN res[f] ELSE cur[f]]

\* The rows of a list the session loaded are updated in place, the rows the
\* handler added are inserted after the committed ones.
DiffRows(cur, snap, res) ==
    [i \in 1..Len(cur) |-> IF i <= Len(snap) THEN DiffRow(cur[i], snap[i], res[i])
                           ELSE cur[i]]
        \o SubSeq(res, Len(snap) + 1, Len(res))

\* The committed database after the session that read snap flushes res.
Flush(cur, snap, res) ==
    [wallets  |-> [u \in Users |->
                     IF snap.wallets[u].exists
                     THEN DiffRow(cur.wallets[u], snap.wallets[u], res.wallets[u])
                     ELSE IF res.wallets[u].exists THEN res.wallets[u]
                     ELSE cur.wallets[u]],
     trips    |-> [t \in Trips |-> IF res.trips[t] # snap.trips[t] THEN res.trips[t]
                                   ELSE cur.trips[t]],
     holds    |-> [t \in Trips |->
                     IF snap.holds[t].status # "none"
                     THEN DiffRow(cur.holds[t], snap.holds[t], res.holds[t])
                     ELSE IF res.holds[t].status # "none" THEN res.holds[t]
                     ELSE cur.holds[t]],
     disputes |-> DiffRows(cur.disputes, snap.disputes, res.disputes),
     txns     |-> DiffRows(cur.txns, snap.txns, res.txns),
     momos    |-> [k \in PayKeys |->
                     IF snap.momos[k].status # "none"
                     THEN DiffRow(cur.momos[k], snap.momos[k], res.momos[k])
                     ELSE IF res.momos[k].status # "none" THEN res.momos[k]
                     ELSE cur.momos[k]],
     payouts  |-> cur.payouts \o SubSeq(res.payouts, Len(snap.payouts) + 1,
                                        Len(res.payouts))]

\* An INSERT that breaks uq_wallet_user_currency or the unique trip_id of
\* escrow_holds: a row the session did not see has been committed meanwhile.
UniqueViolation_none(cur, snap, res) == FALSE
UniqueViolation(cur, snap, res) ==
    \/ \E u \in Users : /\ ~snap.wallets[u].exists
                        /\ res.wallets[u].exists
                        /\ cur.wallets[u].exists
    \/ \E t \in Trips : /\ snap.holds[t].status = "none"
                        /\ res.holds[t].status # "none"
                        /\ cur.holds[t].status # "none"

\* Databases the endpoints produce one request after the other, from which
\* the concurrent requests start.
Funded ==
    momo_callback(deposit_momo(EmptyDb, "shipper", 100000, 1).db, 1, "success").db
PendingDeposit == deposit_momo(Funded, "shipper", 100000, 2).db
PendingWithdrawal == withdraw_momo(Funded, "shipper", 50000, 2).db
HeldConfirmed ==
    update_trip_status(create_escrow_hold(Funded, 1, "shipper").db,
                       1, "admin", "confirmed").db
HeldDisputed ==
    open_dispute(update_trip_status(create_escrow_hold(Funded, 1, "shipper").db,
                                    1, "admin", "delivered").db,
                 1, "shipper").db
HeldDelivered ==
    update_trip_status(create_escrow_hold(Funded, 1, "shipper").db,
                       1, "admin", "delivered").db
Prepared ==
    {Funded, PendingDeposit, PendingWithdrawal, HeldConfirmed, HeldDisputed,
     HeldDelivered}

InitC ==
    /\ rate = PLATFORM_COMMISSION_RATE
    /\ db \in Prepared
    /\ last = NoResponse
    /\ req = [s \in Sessions |-> IdleRequest]

\* The external_transaction_id a new payment gets: one no payment carries.
ReservedKeys == {req[s].key : s \in {x \in Sessions : req[x].phase = "read"}}
FreshKeys == {k \in PayKeys : db.momos[k].status = "none"} \ ReservedKeys
FreshKey == CHOOSE k \in FreshKeys : \A j \in FreshKeys : k <= j

\* A request arrives on an idle session and its handler loads its rows.
Begin(s, op, arg, by, amount, key) ==
    /\ req[s].phase = "idle"
    /\ req' = [req EXCEPT ![s] = Request("read", op, arg, by, amount, key, db, 0)]
    /\ UNCHANGED << db, last, rate >>

BeginWithdraw ==
    /\ FreshKeys # {}
    /\ \E s \in Sessions, a \in WithdrawAmounts :
        Begin(s, "withdraw", 0, "shipper", a, FreshKey)

BeginCallback ==
    /\ \E s \in Sessions, st \in {"success", "failed"},
          k \in {j \in PayKeys : db.momos[j].status # "none"} :
        Begin(s, "callback", k, st, 0, 0)

BeginRelease ==
    /\ \E s \in Sessions, t \in {x \in Trips : db.holds[x].status # "none"} :
        Begin(s, "release", t, "shipper", 0, 0)

BeginRefund ==
    /\ \E s \in Sessions, t \in {x \in Trips : db.holds[x].status # "none"} :
        Begin(s, "refund", t, "admin", 0, 0)

BeginResolve ==
    /\ \E s \in Sessions, id \in 1..Len(db.disputes),
          res \in {"resolved_shipper", "resolved_courier"} :
        Begin(s, res, id, "admin", 0, 0)

BeginHold ==
    /\ \E s \in Sessions, t \in Trips :
        Begin(s, "hold", t, "shipper", 0, 0)

BeginOpenDispute ==
    /\ \E s \in Sessions, u \in Users,
          t \in {x \in Trips : db.holds[x].status # "none"} :
        Begin(s, "open_dispute", t, u, 0, 0)

\* The handler returns: its session flushes and commits, or rolls back
\* when the handler raised or an INSERT broke a unique constraint.
Commit ==
    /\ \E s \in Sessions :
        LET r == req[s]
            out == Run(r, r.snap)
            code == IF out.code >= 400 THEN out.code
                    ELSE IF UniqueViolation(db, r.snap, out.db) THEN 500
                    ELSE out.code
        IN  /\ r.phase = "read"
            /\ db' = IF code >= 400 THEN db ELSE Flush(db, r.snap, out.db)
            /\ req' = [req EXCEPT ![s].phase = "done", ![s].code = code]
            /\ last' = Response(r.op, r.arg, r.by, code)
            /\ UNCHANGED rate

NextC ==
    \/ BeginWithdraw
    \/ BeginCallback
    \/ BeginRelease
    \/ BeginRefund
    \/ BeginResolve
    \/ BeginHold
    \/ BeginOpenDispute
    \/ Commit

SpecC == InitC /\ [][NextC]_vars

\* ------------------------------------------------------------------------
\* Measures used by the properties
\* ------------------------------------------------------------------------
RECURSIVE SumOver(_, _)
\* The sum of f[x] over the finite set S.
SumOver(S, f) ==
    IF S = {} THEN 0
    ELSE LET x == CHOOSE y \in S : TRUE
         IN  f[x] + SumOver(S \ {x}, f)

TxnIds(d) == 1..Len(d.txns)

\* Cumulative platform commission: the completed commission ledger entries.
CommissionEntries(d) ==
    {i \in TxnIds(d) : d.txns[i].type = "commission" /\ d.txns[i].status = "completed"}
PlatformCommission(d) ==
    SumOver(CommissionEntries(d), [i \in TxnIds(d) |-> d.txns[i].amount])

\* Funds in the wallets: available plus escrow-locked, over all wallets.
WalletFunds(d) ==
    SumOver(Users, [u \in Users |-> d.wallets[u].balance + d.wallets[u].escrow_balance])

\* Money that came in by completed deposits, and money that went out by
\* withdrawals (amount and fee of every disbursement that has not failed).
CompletedDeposits(d) ==
    SumOver({k \in PayKeys : d.momos[k].direction = "collection"
                             /\ d.momos[k].status = "success"},
            [k \in PayKeys |-> d.momos[k].amount])
Withdrawals(d) ==
    SumOver({k \in PayKeys : d.momos[k].direction = "disbursement"
                             /\ d.momos[k].status \in {"pending", "success"}},
            [k \in PayKeys |-> d.momos[k].amount + d.momos[k].fee])

TerminalHold == {"released", "refunded", "partially_released"}

\* Ledger entries that pay a hold out: they reference the hold, or a dispute
\* of the hold's trip.
PaysOut(d, i, t) ==
    /\ d.txns[i].status = "completed"
    /\ \/ d.txns[i].ref_type = "escrow" /\ d.txns[i].ref = t
       \/ /\ d.txns[i].ref_type = "dispute"
          /\ d.txns[i].ref \in 1..Len(d.disputes)
          /\ d.disputes[d.txns[i].ref].trip = t
    /\ \/ d.txns[i].type \in {"escrow_refund", "commission"}
       \/ d.txns[i].type = "escrow_release" /\ d.txns[i].wallet = "courier"
PaidOut(d, t) ==
    SumOver({i \in TxnIds(d) : PaysOut(d, i, t)}, [i \in TxnIds(d) |-> d.txns[i].amount])

\* The sum of the holds of a payer that still lock funds.
LockedByHolds(d) ==
    SumOver({t \in Trips : d.holds[t].status \in {"held", "disputed"}},
            [t \in Trips |-> d.holds[t].amount])

\* ------------------------------------------------------------------------
\* Properties
\* ------------------------------------------------------------------------
\* C1  Conservation: wallet funds (available + escrow over all wallets) plus
\* the cumulative platform commission equal the completed deposits minus the
\* withdrawals, in every reachable state; no escrow operation changes the total.
C1_Conservation ==
    WalletFunds(db) + PlatformCommission(db) = CompletedDeposits(db) - Withdrawals(db)

\* A dispute has been settled by a split that pays both parties and leaves
\* a remainder to the platform.
C1_Witness ==
    /\ \E t \in Trips : db.holds[t].status = "partially_released"
    /\ \E i \in 1..Len(db.disputes) :
          /\ db.disputes[i].status = "resolved_split"
          /\ db.disputes[i].refund > 0
          /\ db.disputes[i].payout > 0
    /\ PlatformCommission(db) > 0
    /\ db.wallets["courier"].balance > 0

\* C2  A hold changes status only along held -> released | refunded | disputed
\* and disputed -> released | refunded | partially_released, and a released,
\* refunded or partially released hold never changes again.
HoldEdges ==
    {<<"none", "held">>,
     <<"held", "released">>, <<"held", "refunded">>, <<"held", "disputed">>,
     <<"disputed", "released">>, <<"disputed", "refunded">>,
     <<"disputed", "partially_released">>}

C2_HoldLegality ==
    [][\A t \in Trips :
          /\ db'.holds[t].status # db.holds[t].status
                => <<db.holds[t].status, db'.holds[t].status>> \in HoldEdges
          /\ db.holds[t].status \in TerminalHold => db'.holds[t] = db.holds[t]]_vars

\* C3  For each hold, what the ledger pays out of it (to the payer, to the
\* payee and as commission) never exceeds the hold's amount.
C3_NoDoubleSpend ==
    \A t \in Trips : PaidOut(db, t) <= db.holds[t].amount

\* C5  Every wallet's available and escrow-locked balances are >= 0.
C5_NonNegative ==
    \A u \in Users : db.wallets[u].balance >= 0 /\ db.wallets[u].escrow_balance >= 0

\* C6  The payer wallet's escrow-locked balance is the sum of the amounts of
\* its holds in state held or disputed; the other wallets lock nothing.
C6_EscrowMatchesHolds ==
    /\ db.wallets["shipper"].escrow_balance = LockedByHolds(db)
    /\ db.wallets["courier"].escrow_balance = 0

\* C4  A callback for a payment that is already processed returns success
\* and changes no wallet, ledger entry or payment record, whatever status
\* it reports.
C4_IdempotentCallback ==
    [][(last'.op = "callback" /\ db.momos[last'.arg].status \in {"success", "failed"})
          => (db' = db /\ last'.code = 200)]_vars

\* A callback reporting failure has been answered for a payment that an
\* earlier callback completed: the wallet keeps the single credit.
C4_Witness ==
    /\ last.op = "callback" /\ last.by = "failed" /\ last.code = 200
    /\ db.momos[last.arg].status = "success"
    /\ db.momos[last.arg].direction = "collection"
    /\ db.wallets[db.momos[last.arg].wallet].total_deposited = db.momos[last.arg].amount

\* C10  holdForTrip for a trip that has a hold in state held or disputed is
\* answered with the conflict 409 and changes nothing, whatever the trip's
\* status.
C10_DuplicateHold ==
    [][\A t \in Trips :
          (last'.op = "hold" /\ last'.arg = t /\ db.holds[t].status \in {"held", "disputed"})
             => (last'.code = 409 /\ db' = db)]_vars

HoldRequests == {"release", "refund", "resolved_shipper", "resolved_courier"}
HoldOf(r) ==
    IF r.op \in {"release", "refund"} THEN r.arg ELSE r.snap.disputes[r.arg].trip

HoldEntries(d, t) ==
    {i \in TxnIds(d) : /\ d.txns[i].type = "escrow_hold"
                        /\ d.txns[i].ref_type = "escrow"
                        /\ d.txns[i].ref = t}

FailureStatus == {"failed", "timeout", "cancelled"}

C12_WithdrawalReversal ==
    [][\A k \in PayKeys :
          /\ (last'.op = "withdraw" /\ last'.arg = k /\ last'.code = 201)
               => LET m == db'.momos[k]
                      u == m.wallet
                  IN  /\ m.direction = "disbursement" /\ m.status = "pending"
                      /\ db'.wallets[u].balance = db.wallets[u].balance - (m.amount + m.fee)
                      /\ db'.wallets[u].total_withdrawn =
                            db.wallets[u].total_withdrawn + m.amount
          /\ (/\ last'.op = "callback" /\ last'.arg = k /\ last'.by \in FailureStatus
              /\ db.momos[k].direction = "disbursement"
              /\ db.momos[k].status = "pending")
               => LET m == db.momos[k]
                      u == m.wallet
                  IN  /\ last'.code = 200
                      /\ db'.momos[k].status = "failed"
                      /\ db'.wallets[u].balance = db.wallets[u].balance + (m.amount + m.fee)
                      /\ db'.wallets[u].total_withdrawn =
                            db.wallets[u].total_withdrawn - m.amount
                      /\ \A i \in TxnsOf(db, k) : db'.txns[i].status = "failed"]_vars

\* A withdrawal of a wallet funded by one deposit has timed out and the
\* wallet is back at the deposited amount.
C12_Witness ==
    /\ last.op = "callback" /\ last.by = "timeout" /\ last.code = 200
    /\ db.momos[last.arg].direction = "disbursement"
    /\ db.momos[last.arg].status = "failed"
    /\ db.momos[last.arg].fee > 0
    /\ LET w == db.wallets[db.momos[last.arg].wallet]
       IN  w.balance = w.total_deposited /\ w.balance > 0 /\ w.total_withdrawn = 0

\* C13  Each trip has at most one dispute in status open, under_review or
\* escalated, and an openDispute that finds such a dispute on its trip, with
\* no other request in between, is refused with the conflict 409 and changes
\* nothing.
C13_OneActiveDispute ==
    [][\A t \in Trips :
          /\ Cardinality(ActiveDisputes(db', t)) <= 1
          /\ \A s \in Sessions :
                (/\ req[s].phase = "read" /\ req'[s].phase = "done"
                 /\ req[s].op = "open_dispute" /\ req[s].arg = t
                 /\ req[s].snap = db
                 /\ ActiveDisputes(db, t) # {})
                  => (req'[s].code = 409 /\ db' = db)]_vars

\* C14  An accepted split of a hold of amount A with refund r and payout p
\* (the amounts stamped on the dispute) has r + p <= A, takes A off the
\* payer's escrow balance, adds r to the payer's available balance and p to
\* the payee's, records the platform take A - r - p on the hold and leaves
\* the hold partially_released.
C14_SplitResolution ==
    [][(last'.op = "resolved_split" /\ last'.code = 200)
          => LET id == last'.arg
                 t == db.disputes[id].trip
                 A == db.holds[t].amount
                 r == db'.disputes[id].refund
                 p == db'.disputes[id].payout
             IN  /\ r >= 0 /\ p >= 0 /\ r + p <= A
                 /\ db'.disputes[id].status = "resolved_split"
                 /\ db'.wallets["shipper"].escrow_balance =
                       db.wallets["shipper"].escrow_balance - A
                 /\ db'.wallets["shipper"].balance = db.wallets["shipper"].balance + r
                 /\ db'.wallets["courier"].balance = db.wallets["courier"].balance + p
                 /\ db'.holds[t].commission = A - r - p
                 /\ db'.holds[t].payout = p
                 /\ db'.holds[t].status = "partially_released"]_vars

\* The split of a hold of 800.00 into a refund of 300.00 and a payout of
\* 400.00 has been accepted and 100.00 stays with the platform.
C14_Witness ==
    /\ last.op = "resolved_split" /\ last.code = 200
    /\ db.disputes[last.arg].refund = 30000
    /\ db.disputes[last.arg].payout = 40000
    /\ db.holds[db.disputes[last.arg].trip].amount = 80000
    /\ db.holds[db.disputes[last.arg].trip].commission = 10000
    /\ db.holds[db.disputes[last.arg].trip].status = "partially_released"
    /\ db.wallets["courier"].balance = 40000

\* C15  A split of an active dispute whose refund plus payout exceed the
\* hold's amount is refused with 400 and changes no dispute, hold, wallet
\* or ledger entry; the dispute can still be resolved afterwards.
C15_SplitExceedsHold ==
    [][\A id \in 1..Len(db.disputes), r \in RefundAmounts, p \in PayoutAmounts :
          (/\ db.disputes[id].status \in ActiveDisputeStatus
           /\ r + p > db.holds[db.disputes[id].trip].amount
           /\ Serve(TRUE, "resolved_split", id, "admin",
                    resolve_dispute(db, id, "admin", "resolved_split", r, p)))
            => /\ last'.code = 400
               /\ db' = db
               /\ resolve_dispute(db', id, "admin", "resolved_shipper", 0, 0).code = 200]_vars

\* A split of an active dispute has been refused.
C15_Witness ==
    /\ last.op = "resolved_split" /\ last.code = 400
    /\ db.disputes[last.arg].status \in ActiveDisputeStatus
    /\ db.holds[db.disputes[last.arg].trip].status = "disputed"
    /\ \E r \in RefundAmounts, p \in PayoutAmounts :
          r + p > db.holds[db.disputes[last.arg].trip].amount

\* C16  A successful release of a hold of amount A takes A off the payer's
\* escrow balance, leaves the payer's available balance alone, adds the net
\* n = A - c to the payee's available balance, where the commission c is
\* A times the rate rounded to the minor unit, records c and n on the hold
\* and sets it to released.
C16_ReleaseEffect ==
    [][\A t \in Trips :
          (last'.op = "release" /\ last'.arg = t /\ last'.code = 200)
            => LET A == db.holds[t].amount
                   c == db'.holds[t].commission
                   n == db'.holds[t].payout
               IN  /\ 2 * (c * RateDen - A * PLATFORM_COMMISSION_RATE) \in -RateDen..RateDen
                   /\ n = A - c
                   /\ db'.wallets["shipper"].escrow_balance =
                         db.wallets["shipper"].escrow_balance - A
                   /\ db'.wallets["shipper"].balance = db.wallets["shipper"].balance
                   /\ db'.wallets["courier"].balance = db.wallets["courier"].balance + n
                   /\ db'.holds[t].status = "released"]_vars

\* A hold of 800.00 has been released at 5%: 40.00 commission, 760.00 net.
C16_Witness ==
    /\ last.op = "release" /\ last.code = 200
    /\ db.holds[last.arg].status = "released"
    /\ db.holds[last.arg].amount = 80000
    /\ db.holds[last.arg].commission = 4000
    /\ db.holds[last.arg].payout = 76000
    /\ db.wallets["courier"].balance = 76000
    /\ db.wallets["shipper"].escrow_balance = 0

CommissionRates == {PLATFORM_COMMISSION_RATE, 2 * PLATFORM_COMMISSION_RATE}

\* A new deployment gives PLATFORM_COMMISSION_RATE another value; the rows of
\* the database, the rate stored on each hold among them, stay as they are.
Redeploy ==
    /\ rate' \in CommissionRates \ {rate}
    /\ UNCHANGED << db, last, req >>

HoldForTripD ==
    /\ HoldCall(FALSE)
ReleaseD ==
    /\ ReleaseCall(TRUE)
OpenDisputeD ==
    /\ OpenDisputeCall(FALSE)
ResolveDisputeD ==
    /\ ResolveCall(TRUE)
DepositD ==
    /\ DepositCall(FALSE, Users)
PaymentCallbackD ==
    /\ CallbackCall(FALSE)
UpdateTripStatusD ==
    /\ TripStatusCall(FALSE, Users)

NextD ==
    \/ Redeploy
    \/ HoldForTripD
    \/ ReleaseD
    \/ OpenDisputeD
    \/ ResolveDisputeD
    \/ DepositD
    \/ PaymentCallbackD
    \/ UpdateTripStatusD

SpecD == Init /\ [][NextD]_vars

\* The trip whose hold the latest release or resolution in favor of the
\* courier settled.
SettledTrip(d, resp) ==
    IF resp.op = "release" THEN resp.arg ELSE d.disputes[resp.arg].trip

\* C18: the commission charged when a hold is released, or when its dispute
\* is resolved in favor of the courier, is the hold's amount times the rate
\* stored on the hold when it was created, and the payout is the amount less
\* that commission, whatever the platform rate has become since.
C18_CapturedRate ==
    [][(last'.op \in {"release", "resolved_courier"} /\ last'.code = 200)
         => LET t == SettledTrip(db, last')
                A == db.holds[t].amount
                c == RoundDiv(A * db.holds[t].rate, RateDen)
            IN  /\ db'.holds[t].commission = c
                /\ db'.holds[t].payout = A - c]_vars

\* C19: releasing a held hold of a confirmed trip, by its payer or an admin,
\* when the courier had no wallet as the hold was created, succeeds and
\* credits the payout to the courier's one wallet: the wallet the courier has
\* obtained since, or a new wallet with nothing but the payout.
C19_PayeeWallet ==
    [][\A t \in Trips :
          (/\ last'.op = "release" /\ last'.arg = t
           /\ last'.by \in {"shipper", "admin"}
           /\ db.holds[t].status = "held"
           /\ db.trips[t] = "confirmed"
           /\ ~db.holds[t].courier_wallet)
            => LET cw == get_wallet_for_user(db, "courier")
                   before == IF cw.exists THEN cw.balance ELSE 0
               IN  /\ last'.code = 200
                   /\ db'.wallets["courier"].exists
                   /\ db'.wallets["courier"].balance
                        = before + db'.holds[t].payout]_vars

FreezeCall(rec) ==
    \E u \in Users : Serve(rec, "freeze_wallet", 0, u, resolve_alert(db, u))

FreezeWalletF ==
    /\ FreezeCall(FALSE)
HoldForTripF ==
    /\ HoldCall(TRUE)
ReleaseF ==
    /\ ReleaseCall(FALSE)
RefundF ==
    /\ RefundCall(FALSE)
OpenDisputeF ==
    /\ OpenDisputeCall(FALSE)
ResolveDisputeF ==
    /\ ResolveCall(FALSE)
DepositF ==
    /\ DepositCall(FALSE, Users)
WithdrawF ==
    /\ WithdrawCall(FALSE, Users)
PaymentCallbackF ==
    /\ CallbackCall(FALSE)
UpdateTripStatusF ==
    /\ TripStatusCall(FALSE, Users)

NextF ==
    \/ FreezeWalletF
    \/ HoldForTripF
    \/ ReleaseF
    \/ RefundF
    \/ OpenDisputeF
    \/ ResolveDisputeF
    \/ DepositF
    \/ WithdrawF
    \/ PaymentCallbackF
    \/ UpdateTripStatusF

SpecF == Init /\ [][NextF]_vars

\* C21: holdForTrip is refused, and the database stays as it was, whenever
\* the trip is not in pickup_pending, the shipper has no wallet, the shipper's
\* wallet is not active, or its balance is less than the bid amount.
C21_HoldRefused ==
    [][\A t \in Trips :
          (/\ last'.op = "hold" /\ last'.arg = t
           /\ LET sw == get_wallet_for_user(db, "shipper")
              IN  \/ db.trips[t] # "pickup_pending"
                  \/ ~sw.exists
                  \/ sw.status # "active"
                  \/ sw.balance < BidPrice(t))
            => /\ last'.code >= 400
               /\ db' = db]_vars

\* A hold refused only because the shipper's wallet is frozen.
C21_Witness ==
    /\ last.op = "hold" /\ last.code = 400
    /\ db.trips[last.arg] = "pickup_pending"
    /\ db.holds[last.arg].status = "none"
    /\ db.wallets["shipper"].exists
    /\ db.wallets["shipper"].status = "frozen"
    /\ db.wallets["shipper"].balance >= BidPrice(last.arg)

\* C22: a refund asked by an administrator succeeds exactly when the hold is
\* held or disputed; it then adds the hold's full amount to the shipper's
\* balance, takes it from the shipper's escrow balance, sets the hold to
\* refunded and appends exactly one completed escrow-refund ledger entry; a
\* refund that fails changes nothing.
C22_RefundEffect ==
    [][\A t \in Trips :
          (last'.op = "refund" /\ last'.arg = t)
            => LET A == db.holds[t].amount
                   sw == db.wallets["shipper"]
                   entry == db'.txns[Len(db'.txns)]
               IN  /\ last'.by = "admin"
                        => (last'.code = 200 <=> db.holds[t].status \in {"held", "disputed"})
                   /\ last'.code # 200 => db' = db
                   /\ last'.code = 200
                        => /\ db'.wallets = [db.wallets EXCEPT
                                  !["shipper"].balance = sw.balance + A,
                                  !["shipper"].escrow_balance = sw.escrow_balance - A]
                           /\ db'.holds = [db.holds EXCEPT ![t].status = "refunded"]
                           /\ Len(db'.txns) = Len(db.txns) + 1
                           /\ SubSeq(db'.txns, 1, Len(db.txns)) = db.txns
                           /\ entry.wallet = "shipper"
                           /\ entry.type = "escrow_refund"
                           /\ entry.amount = A
                           /\ entry.status = "completed"]_vars

\* A disputed hold has just been refunded.
C22_Witness ==
    /\ last.op = "refund" /\ last.code = 200 /\ last.by = "admin"
    /\ db.holds[last.arg].status = "refunded"
    /\ db.trips[last.arg] = "disputed"
    /\ db.wallets["shipper"].escrow_balance = 0

\* C23: initiating a deposit appends one pending ledger entry and creates one
\* pending collection payment, and leaves the balance, the escrow balance and
\* the cumulative counters of every wallet as they were; a wallet's balance
\* grows by a deposit only in the step that processes a success callback for
\* that deposit's pending payment (the other growth is the reversal of a
\* withdrawal).
C23_DepositInitiation ==
    [][/\ (last'.op = "deposit" /\ last'.code < 400)
          => LET k == last'.arg
                 u == last'.by
                 entry == db'.txns[Len(db'.txns)]
             IN  /\ db.momos[k].status = "none"
                 /\ db'.momos[k].status = "pending"
                 /\ db'.momos[k].direction = "collection"
                 /\ db'.momos[k].wallet = u
                 /\ Len(db'.txns) = Len(db.txns) + 1
                 /\ SubSeq(db'.txns, 1, Len(db.txns)) = db.txns
                 /\ entry.wallet = u
                 /\ entry.type = "deposit"
                 /\ entry.status = "pending"
                 /\ entry.ref = k
                 /\ db'.wallets = [db.wallets EXCEPT ![u].exists = TRUE]
       /\ \A u \in Users :
            db'.wallets[u].balance > db.wallets[u].balance
              => /\ last'.op = "callback"
                 /\ LET m == db.momos[last'.arg]
                    IN  /\ m.wallet = u
                        /\ m.status = "pending"
                        /\ \/ /\ m.direction = "collection"
                              /\ last'.by = "success"
                              /\ db'.wallets[u].balance
                                   = db.wallets[u].balance + m.amount
                           \/ /\ m.direction = "disbursement"
                              /\ last'.by \in FailureStatus]_vars

\* A deposit has been initiated on a wallet that already held money, and the
\* money is what it was.
C23_Witness ==
    /\ last.op = "deposit" /\ last.code < 400
    /\ db.momos[last.arg].status = "pending"
    /\ db.wallets[last.by].balance > 0
    /\ db.wallets[last.by].balance = db.wallets[last.by].total_deposited

\* C24: the first success callback for a deposit, one that finds its payment
\* pending, adds exactly the recorded payment amount to the wallet's balance
\* and to its total_deposited, changes nothing else of any wallet, marks the
\* payment success and marks the deposit's ledger entry completed.
C24_DepositCredited ==
    [][\A k \in PayKeys :
          (/\ last'.op = "callback" /\ last'.arg = k /\ last'.by = "success"
           /\ db.momos[k].status = "pending"
           /\ db.momos[k].direction = "collection")
            => LET m == db.momos[k]
                   w == db.wallets[m.wallet]
               IN  /\ last'.code = 200
                   /\ db'.wallets = [db.wallets EXCEPT
                          ![m.wallet].balance = w.balance + m.amount,
                          ![m.wallet].total_deposited = w.total_deposited + m.amount]
                   /\ db'.momos = [db.momos EXCEPT ![k].status = "success"]
                   /\ TxnsOf(db, k) # {}
                   /\ Len(db'.txns) = Len(db.txns)
                   /\ \A i \in TxnsOf(db, k) :
                        /\ db.txns[i].status = "pending"
                        /\ db'.txns[i].status = "completed"
                        /\ db'.txns[i].amount = m.amount]_vars

\* A second deposit has been credited on top of the first.
C24_Witness ==
    /\ last.op = "callback" /\ last.by = "success"
    /\ db.momos[last.arg].status = "success"
    /\ db.momos[last.arg].direction = "collection"
    /\ \E u \in Users :
        /\ db.momos[last.arg].wallet = u
        /\ db.wallets[u].total_deposited > db.momos[last.arg].amount
        /\ db.wallets[u].balance = db.wallets[u].total_deposited

\* C25: a success callback for a pending withdrawal, and a failed, timeout or
\* cancelled callback for a pending deposit, leave every wallet as it was:
\* the first only marks the payment success and its ledger entry completed,
\* the second only marks the payment failed and its ledger entry failed.
C25_NoBalanceChange ==
    [][\A k \in PayKeys :
          (/\ last'.op = "callback" /\ last'.arg = k
           /\ db.momos[k].status = "pending")
            => /\ (db.momos[k].direction = "disbursement" /\ last'.by = "success")
                    => /\ db'.wallets = db.wallets
                       /\ db'.momos = [db.momos EXCEPT ![k].status = "success"]
                       /\ TxnsOf(db, k) # {}
                       /\ db'.txns = [i \in 1..Len(db.txns) |->
                              IF i \in TxnsOf(db, k)
                              THEN [db.txns[i] EXCEPT !.status = "completed"]
                              ELSE db.txns[i]]
               /\ (db.momos[k].direction = "collection" /\ last'.by \in FailureStatus)
                    => /\ db'.wallets = db.wallets
                       /\ db'.momos = [db.momos EXCEPT ![k].status = "failed"]
                       /\ TxnsOf(db, k) # {}
                       /\ db'.txns = [i \in 1..Len(db.txns) |->
                              IF i \in TxnsOf(db, k)
                              THEN [db.txns[i] EXCEPT !.status = "failed"]
                              ELSE db.txns[i]]]_vars

\* A withdrawal has been confirmed paid: the wallet keeps its debited balance.
C25_Witness ==
    /\ last.op = "callback" /\ last.by = "success"
    /\ db.momos[last.arg].status = "success"
    /\ db.momos[last.arg].direction = "disbursement"
    /\ \E u \in Users :
        /\ db.momos[last.arg].wallet = u
        /\ db.wallets[u].total_withdrawn = db.momos[last.arg].amount
        /\ db.wallets[u].balance
             = db.wallets[u].total_deposited
                 - db.momos[last.arg].amount - db.momos[last.arg].fee

\* C26: no step changes the balance or the escrow balance of a wallet that is
\* frozen or closed.
C26_FrozenUntouched ==
    [][\A u \in Users :
          (db.wallets[u].exists /\ db.wallets[u].status \in {"frozen", "closed"})
            => /\ db'.wallets[u].balance = db.wallets[u].balance
               /\ db'.wallets[u].escrow_balance = db.wallets[u].escrow_balance]_vars

\* What a ledger entry does to the balance of its wallet: a deposit, a refund
\* and a release to the courier add its amount, a hold takes its amount, a
\* withdrawal takes its amount and fee; the shipper's release and commission
\* entries describe escrowed money and leave the balance alone.
LedgerEffect(e) ==
    IF e.type \in {"deposit", "escrow_refund"} THEN e.amount
    ELSE IF e.type = "escrow_release" /\ e.wallet = "courier" THEN e.amount
    ELSE IF e.type = "escrow_hold" THEN 0 - e.amount
    ELSE IF e.type = "withdrawal" THEN 0 - (e.amount + e.fee)
    ELSE 0

\* The balance the completed entries of a wallet add up to, from zero.
LedgerBalance(d, u) ==
    SumOver({i \in TxnIds(d) : d.txns[i].wallet = u /\ d.txns[i].status = "completed"},
            [i \in TxnIds(d) |-> LedgerEffect(d.txns[i])])

\* C27: in every state the balance of each wallet is what its completed
\* ledger entries add up to, a withdrawal in flight or reversed included.
C27_Auditability ==
    \A u \in Users : db.wallets[u].balance = LedgerBalance(db, u)

\* The ledger entries a step from d to e writes or completes: the entries
\* it appends and the earlier entries it turns completed.
EntriesWritten(d, e) ==
    {i \in TxnIds(e) :
        \/ i > Len(d.txns)
        \/ e.txns[i].status = "completed" /\ d.txns[i].status # "completed"}

\* C28: a step that changes the balance or the escrow balance of a wallet
\* writes or completes a ledger entry on that wallet, and every entry a step
\* writes or completes carries as its snapshot the balance its wallet has
\* after the step.
C28_BalanceLedgerPairing ==
    [][/\ \A u \in Users :
            (\/ db'.wallets[u].balance # db.wallets[u].balance
             \/ db'.wallets[u].escrow_balance # db.wallets[u].escrow_balance)
              => \E i \in EntriesWritten(db, db') : db'.txns[i].wallet = u
       /\ \A i \in EntriesWritten(db, db') :
            db'.txns[i].balance_after = db'.wallets[db'.txns[i].wallet].balance]_vars

\* C29: the ledger only grows: every step keeps each entry written earlier,
\* with its wallet, kind, amount and balance snapshot as they were written.
C29_AppendOnly ==
    [][/\ Len(db'.txns) >= Len(db.txns)
       /\ \A i \in TxnIds(db) :
            /\ db'.txns[i].wallet = db.txns[i].wallet
            /\ db'.txns[i].type = db.txns[i].type
            /\ db'.txns[i].amount = db.txns[i].amount
            /\ db'.txns[i].balance_after = db.txns[i].balance_after]_vars

\* C30: every dispute in a resolved status names the administrator who
\* resolved it and records a shipper refund and a courier payout that add up
\* to no more than the hold's amount; the step that resolves it adds exactly
\* the recorded refund to the shipper's balance and exactly the recorded
\* payout to the courier's balance, and the record stays as stamped.
C30_DisputeRecord ==
    [][\A id \in 1..Len(db'.disputes) :
          db'.disputes[id].status \in ResolvedDisputeStatus
            => LET dispute == db'.disputes[id]
                   cw == get_wallet_for_user(db, "courier")
                   before == IF cw.exists THEN cw.balance ELSE 0
               IN  /\ dispute.resolved_by = "admin"
                   /\ dispute.refund >= 0
                   /\ dispute.payout >= 0
                   /\ dispute.refund + dispute.payout <= db'.holds[dispute.trip].amount
                   /\ IF db.disputes[id].status \in ResolvedDisputeStatus
                      THEN dispute = db.disputes[id]
                      ELSE /\ db'.wallets["shipper"].balance
                                = db.wallets["shipper"].balance + dispute.refund
                           /\ db'.wallets["courier"].balance = before + dispute.payout]_vars

\* A dispute has been resolved by a split that pays both parties less than
\* the hold.
C30_Witness ==
    \E id \in 1..Len(db.disputes) :
        /\ db.disputes[id].status = "resolved_split"
        /\ db.disputes[id].resolved_by = "admin"
        /\ db.disputes[id].refund > 0
        /\ db.disputes[id].payout > 0
        /\ db.disputes[id].refund + db.disputes[id].payout
             < db.holds[db.disputes[id].trip].amount

\* ------------------------------------------------------------------------
\* Withdrawals of small, middle and large amounts from a funded wallet
\* ------------------------------------------------------------------------
\* The amounts withdrawn: 1% of the first is under the minimum fee, 1% of the
\* last over the maximum fee.
FeeAmounts == {2000, 50000, 150000}

\* The balances the shipper's completed deposit leaves: one pesewa short of
\* an amount and its fee, exactly an amount and its fee, and plenty.
FundedBalances == {2049, 2050, 50499, 50500, 400000}

\* The funding deposit has key 1; MaxPayments more payments follow it.
FundedWith(b) ==
    momo_callback(deposit_momo(EmptyDb, "shipper", b, 1).db, 1, "success").db

InitW ==
    /\ rate = PLATFORM_COMMISSION_RATE
    /\ db \in {FundedWith(b) : b \in FundedBalances}
    /\ last = NoResponse
    /\ req = [s \in Sessions |-> IdleRequest]

WithdrawW ==
    /\ FreshKeys # {} /\ FreshKey <= MaxPayments + 1
    /\ \E u \in Users, a \in FeeAmounts :
        Serve(TRUE, "withdraw", FreshKey, u, withdraw_momo(db, u, a, FreshKey))
DepositW ==
    /\ FreshKeys # {} /\ FreshKey <= MaxPayments + 1
    /\ \E u \in Users, a \in DepositAmounts :
        Serve(TRUE, "deposit", FreshKey, u, deposit_momo(db, u, a, FreshKey))

NextW ==
    \/ WithdrawW
    \/ DepositW
    \/ PaymentCallbackP

SpecW == InitW /\ [][NextW]_vars

\* C31: a withdrawal of amount a from an active wallet that holds at least a
\* plus the fee takes exactly a plus the fee from the balance at once, the fee
\* being 1% of a and no less than 0.50 and no more than 10.00, adds a to
\* total_withdrawn and appends one processing withdrawal entry; a withdrawal
\* from a wallet that holds less is refused and changes nothing.
C31_WithdrawDebit ==
    [][\A u \in Users, a \in FeeAmounts :
          (/\ FreshKeys # {} /\ FreshKey <= MaxPayments + 1
           /\ Serve(TRUE, "withdraw", FreshKey, u, withdraw_momo(db, u, a, FreshKey)))
            => LET w == db.wallets[u]
                   pct == RoundDiv(a * WithdrawFeePct, 100)
                   fee == IF pct < WithdrawFeeMin THEN WithdrawFeeMin
                          ELSE IF pct > WithdrawFeeMax THEN WithdrawFeeMax
                          ELSE pct
                   entry == db'.txns[Len(db'.txns)]
               IN  IF w.exists /\ w.status = "active" /\ w.balance >= a + fee
                   THEN /\ last'.code < 400
                        /\ db'.wallets = [db.wallets EXCEPT
                               ![u].balance = w.balance - (a + fee),
                               ![u].total_withdrawn = w.total_withdrawn + a]
                        /\ Len(db'.txns) = Len(db.txns) + 1
                        /\ SubSeq(db'.txns, 1, Len(db.txns)) = db.txns
                        /\ entry.wallet = u
                        /\ entry.type = "withdrawal"
                        /\ entry.amount = a
                        /\ entry.fee = fee
                        /\ entry.status = "processing"
                        /\ db'.momos[last'.arg].status = "pending"
                        /\ db'.momos[last'.arg].direction = "disbursement"
                   ELSE /\ last'.code = 400
                        /\ db' = db]_vars

\* A withdrawal of 1500.00 has been debited with the maximum fee.
C31_Witness ==
    /\ last.op = "withdraw" /\ last.code < 400
    /\ db.momos[last.arg].amount = 150000
    /\ db.momos[last.arg].fee = WithdrawFeeMax
    /\ db.wallets[last.by].balance = 400000 - 150000 - WithdrawFeeMax

\* C32: while a withdrawal's payment is pending, every step other than a
\* success, failed, timeout or cancelled callback for its key leaves the
\* payment pending and its ledger entry processing and as written, and does
\* not give the debit back: the balance grows in such a step only by what a
\* callback for another payment credits.
C32_WithdrawalInFlight ==
    [][\A k \in PayKeys :
          (/\ db.momos[k].direction = "disbursement"
           /\ db.momos[k].status = "pending"
           /\ ~(/\ last'.op = "callback" /\ last'.arg = k
                /\ last'.by \in {"success"} \cup FailureStatus))
            => LET u == db.momos[k].wallet
                   grown == db'.wallets[u].balance - db.wallets[u].balance
                   other == db.momos[last'.arg]
               IN  /\ db'.momos[k] = db.momos[k]
                   /\ \A i \in TxnIds(db) :
                        (db.txns[i].ref_type = "momo_payment" /\ db.txns[i].ref = k)
                          => /\ db.txns[i].status = "processing"
                             /\ db'.txns[i] = db.txns[i]
                   /\ grown > 0
                        => /\ last'.op = "callback" /\ last'.arg # k
                           /\ other.wallet = u
                           /\ other.status = "pending"
                           /\ grown = IF other.direction = "collection"
                                      THEN other.amount
                                      ELSE other.amount + other.fee]_vars

\* Two withdrawals were in flight and a callback has settled the later one:
\* the earlier one is still pending.
C32_Witness ==
    /\ last.op = "callback" /\ last.by \in {"success"} \cup FailureStatus
    /\ db.momos[last.arg].direction = "disbursement"
    /\ db.momos[last.arg].status \in {"success", "failed"}
    /\ \E k \in PayKeys :
        /\ k < last.arg
        /\ db.momos[k].direction = "disbursement"
        /\ db.momos[k].status = "pending"
        /\ db.momos[k].wallet = db.momos[last.arg].wallet

\* ------------------------------------------------------------------------
\* GET /wallets/me, with its response kept, among the operations that fill,
\* lock and freeze a wallet
\* ------------------------------------------------------------------------
get_my_wallet(d, user) == Ok(get_or_create_wallet(d, user), 200)

GetMyWalletG ==
    /\ \E u \in Users : Serve(TRUE, "get_my_wallet", 0, u, get_my_wallet(db, u))
FreezeWalletG ==
    /\ FreezeCall(FALSE)

NextG ==
    \/ GetMyWalletG
    \/ FreezeWalletG
    \/ HoldForTrip
    \/ Deposit
    \/ Withdraw
    \/ PaymentCallback

SpecG == Init /\ [][NextG]_vars

\* C33: the first GET /wallets/me of a user creates an active wallet with
\* zero balances and counters and changes nothing else; every later one
\* leaves the whole database, that wallet's balances, counters and status
\* included, as it was.
C33_GetOrCreateIdempotent ==
    [][\A u \in Users :
          (last'.op = "get_my_wallet" /\ last'.by = u)
            => /\ last'.code = 200
               /\ IF db.wallets[u].exists
                  THEN db' = db
                  ELSE db' = [db EXCEPT !.wallets[u] =
                                [exists |-> TRUE, balance |-> 0, escrow_balance |-> 0,
                                 total_deposited |-> 0, total_withdrawn |-> 0,
                                 total_earned |-> 0, status |-> "active"]]
               /\ get_or_create_wallet(db', u) = db']_vars

\* GET /wallets/me has been served for a frozen wallet that holds money
\* available and in escrow.
C33_Witness ==
    /\ last.op = "get_my_wallet"
    /\ db.wallets[last.by].exists
    /\ db.wallets[last.by].status = "frozen"
    /\ db.wallets[last.by].balance > 0
    /\ db.wallets[last.by].escrow_balance > 0

\* The escrow-refund entries a request appends to the ledger of d on its way
\* to e.
RefundEntries(d, e) ==
    {i \in TxnIds(e) : i > Len(d.txns) /\ e.txns[i].type = "escrow_refund"}

\* C34: from any state with a disputed hold and its active dispute, a refund
\* of the hold and a resolution of the dispute in favor of the shipper both
\* succeed and give the same wallets, both set the hold to refunded, and both
\* append one ledger entry: a completed escrow-refund entry of the hold's
\* full amount on the shipper's wallet, with the same balance snapshot.
C34_ResolveShipperIsRefund ==
    \A id \in 1..Len(db.disputes) :
        LET t == db.disputes[id].trip
            refunded == refund_escrow(db, t, "admin")
            resolved == resolve_dispute(db, id, "admin", "resolved_shipper", 0, 0)
            n == Len(db.txns) + 1
        IN  (db.disputes[id].status \in ActiveDisputeStatus /\ db.holds[t].status = "disputed")
              => /\ refunded.code = 200 /\ resolved.code = 200
                 /\ refunded.db.wallets = resolved.db.wallets
                 /\ refunded.db.wallets["shipper"].balance
                      = db.wallets["shipper"].balance + db.holds[t].amount
                 /\ refunded.db.holds[t].status = "refunded"
                 /\ resolved.db.holds[t].status = "refunded"
                 /\ Len(refunded.db.txns) = n /\ Len(resolved.db.txns) = n
                 /\ RefundEntries(db, refunded.db) = {n}
                 /\ RefundEntries(db, resolved.db) = {n}
                 /\ \A e \in {refunded.db.txns[n], resolved.db.txns[n]} :
                      /\ e.wallet = "shipper"
                      /\ e.amount = db.holds[t].amount
                      /\ e.status = "completed"
                      /\ e.balance_after = refunded.db.wallets["shipper"].balance

\* A disputed hold whose dispute has been escalated: the refund and the
\* resolution in favor of the shipper are both about to apply.
C34_Witness ==
    \E id \in 1..Len(db.disputes) :
        /\ db.disputes[id].status = "escalated"
        /\ db.holds[db.disputes[id].trip].status = "disputed"
        /\ db.wallets["shipper"].escrow_balance = db.holds[db.disputes[id].trip].amount
        /\ refund_escrow(db, db.disputes[id].trip, "admin").db.holds[db.disputes[id].trip].status
             = "refunded"

\* The database d with the hold of trip t not disputed: the hold held and
\* the trip confirmed, every wallet and ledger entry as in d.
Undisputed(d, t) ==
    [d EXCEPT !.holds[t].status = "held", !.trips[t] = "confirmed"]

\* C35: from any state with a disputed hold and its active dispute, resolving
\* the dispute in favor of the courier is answered as a release of the same
\* hold, held and confirmed, would be, and where it succeeds it gives the same
\* wallets and the same hold: the commission by the release formula, the
\* shipper's escrow balance less the full amount, the courier's balance, on
\* a wallet created when the courier has none, plus amount less commission,
\* the hold released with that commission and payout recorded.
C35_ResolveCourierIsRelease ==
    \A id \in 1..Len(db.disputes) :
        LET t == db.disputes[id].trip
            A == db.holds[t].amount
            c == RoundDiv(A * rate, RateDen)
            cw == get_wallet_for_user(db, "courier")
            before == IF cw.exists THEN cw.balance ELSE 0
            released == release_escrow(Undisputed(db, t), t, "admin")
            resolved == resolve_dispute(db, id, "admin", "resolved_courier", 0, 0)
        IN  (db.disputes[id].status \in ActiveDisputeStatus /\ db.holds[t].status = "disputed")
              => /\ resolved.code = released.code
                 /\ resolved.code = 200
                      => /\ resolved.db.wallets = released.db.wallets
                         /\ resolved.db.holds[t].status = released.db.holds[t].status
                         /\ resolved.db.holds[t].commission = released.db.holds[t].commission
                         /\ resolved.db.holds[t].payout = released.db.holds[t].payout
                         /\ resolved.db.holds[t].status = "released"
                         /\ resolved.db.holds[t].commission = c
                         /\ resolved.db.holds[t].payout = A - c
                         /\ resolved.db.wallets["shipper"].escrow_balance
                              = db.wallets["shipper"].escrow_balance - A
                         /\ resolved.db.wallets["shipper"].balance
                              = db.wallets["shipper"].balance
                         /\ resolved.db.wallets["courier"].exists
                         /\ resolved.db.wallets["courier"].balance = before + (A - c)

\* A dispute on a disputed hold whose courier has no wallet yet: resolving it
\* in favor of the courier creates the wallet and credits it.
C35_Witness ==
    \E id \in 1..Len(db.disputes) :
        /\ db.disputes[id].status \in ActiveDisputeStatus
        /\ db.holds[db.disputes[id].trip].status = "disputed"
        /\ ~db.wallets["courier"].exists
        /\ LET resolved == resolve_dispute(db, id, "admin", "resolved_courier", 0, 0)
           IN  /\ resolved.code = 200
               /\ resolved.db.wallets["courier"].exists
               /\ resolved.db.wallets["courier"].balance > 0

\* C36: a resolution succeeds only on a dispute that is open, under review
\* or escalated, an escalation only on one that is open or under review; a
\* resolution or escalation that is refused leaves the whole database as it
\* was; and no step changes the status of a dispute that is resolved.
C36_DisputeStateMachine ==
    [][/\ \A id \in 1..MaxDisputes :
            /\ (last'.op \in ResolvedDisputeStatus /\ last'.arg = id /\ last'.code = 200)
                 => /\ id \in 1..Len(db.disputes)
                    /\ db.disputes[id].status \in {"open", "under_review", "escalated"}
                    /\ db'.disputes[id].status = last'.op
            /\ (last'.op = "escalate" /\ last'.arg = id /\ last'.code = 200)
                 => /\ id \in 1..Len(db.disputes)
                    /\ db.disputes[id].status \in {"open", "under_review"}
                    /\ db'.disputes[id].status = "escalated"
       /\ (last'.op \in ResolvedDisputeStatus \cup {"escalate"} /\ last'.code # 200)
            => db' = db
       /\ \A id \in 1..Len(db.disputes) :
            db.disputes[id].status \in ResolvedDisputeStatus
              => /\ Len(db'.disputes) >= id
                 /\ db'.disputes[id].status = db.disputes[id].status]_vars

\* An escalation has been refused on a dispute that was already escalated.
C36_Witness ==
    /\ last.op = "escalate" /\ last.code = 400
    /\ last.arg \in 1..Len(db.disputes)
    /\ db.disputes[last.arg].status = "escalated"

\* C37: opening a dispute changes only the trip's status, the status of the
\* trip's hold (held becomes disputed) and the disputes, to which it adds the
\* new open dispute; escalating changes only the status of the dispute; both
\* leave every wallet, the ledger, the payments and the payouts as they were,
\* and change nothing at all when they are refused.
C37_NoFundsMoved ==
    [][/\ \A t \in Trips :
            (last'.op = "open_dispute" /\ last'.arg = t)
              => IF last'.code >= 400 THEN db' = db
                 ELSE /\ db'.wallets = db.wallets
                      /\ db'.txns = db.txns
                      /\ db'.momos = db.momos
                      /\ db'.payouts = db.payouts
                      /\ db'.trips = [db.trips EXCEPT ![t] = "disputed"]
                      /\ db'.holds = [db.holds EXCEPT ![t].status =
                             IF db.holds[t].status = "held" THEN "disputed"
                             ELSE db.holds[t].status]
                      /\ Len(db'.disputes) = Len(db.disputes) + 1
                      /\ SubSeq(db'.disputes, 1, Len(db.disputes)) = db.disputes
                      /\ db'.disputes[Len(db'.disputes)].trip = t
                      /\ db'.disputes[Len(db'.disputes)].status = "open"
                      /\ db'.disputes[Len(db'.disputes)].raised_by = last'.by
       /\ \A id \in 1..MaxDisputes :
            (last'.op = "escalate" /\ last'.arg = id)
              => IF last'.code >= 400 THEN db' = db
                 ELSE db' = [db EXCEPT !.disputes[id].status = "escalated"]]_vars

\* A dispute on a hold that locks money has been escalated.
C37_Witness ==
    /\ last.op = "escalate" /\ last.code = 200
    /\ db.disputes[last.arg].status = "escalated"
    /\ db.holds[db.disputes[last.arg].trip].status = "disputed"
    /\ db.wallets["shipper"].escrow_balance > 0

\* C38: in every state each active dispute is on a hold that is disputed, and
\* each disputed hold has exactly one active dispute.
C38_DisputeFreezesHold ==
    /\ \A id \in 1..Len(db.disputes) :
         db.disputes[id].status \in ActiveDisputeStatus
           => db.holds[db.disputes[id].trip].status = "disputed"
    /\ \A t \in Trips :
         db.holds[t].status = "disputed" => Cardinality(ActiveDisputes(db, t)) = 1


\* C39: in every state each hold has at most one payout record, and every
\* payout record is completed, references a released hold, carries that hold's
\* recorded payee net amount, and that amount was credited to the payee once
\* (one completed release entry on the payee wallet for the hold or a dispute
\* of its trip).
C39_PayoutRecords ==
    /\ \A t \in Trips :
         Cardinality({i \in 1..Len(db.payouts) : db.payouts[i].trip = t}) <= 1
    /\ \A i \in 1..Len(db.payouts) :
         LET t == db.payouts[i].trip
         IN  /\ db.payouts[i].status = "completed"
             /\ db.holds[t].status = "released"
             /\ db.payouts[i].amount = db.holds[t].payout
             /\ Cardinality({j \in TxnIds(db) : /\ PaysOut(db, j, t)
                                                /\ db.txns[j].type = "escrow_release"}) = 1

====
